---- MODULE Spec2Model ----
(***************************************************************************)
(* Model of the retrieval and context-assembly code of pythiq-backend:    *)
(*   app/services/rag_service.py      RAGService                          *)
(*   app/api/v1/endpoints/chats.py    create_message                      *)
(*   app/db/repositories/*.py         the tables the endpoint writes      *)
(*                                                                         *)
(* Scores are the index's float scores in hundredths (0.75 is 75).  A text *)
(* is modelled by its token sequence, so count_tokens is its length.      *)
(***************************************************************************)
EXTENDS Integers, Sequences, FiniteSets, TLC

(***************************************************************************)
(* Bounds of the model                                                     *)
(***************************************************************************)
\* longest enabled_document_ids list passed to get_relevant_chunks
MaxEnabled == 2
\* longest chat_history passed to manage_context_window
MaxTurns == 4
\* largest max_tokens passed to manage_context_window
MaxBudget == 6
\* most messages the messages table holds before requests stop
MaxStored == 3
\* longest contexts list passed to generate_response
MaxContexts == 2
\* longest chat_history passed to generate_response
MaxPrior == 2
\* longest identity string a collection name is derived from
MaxIdentity == 4
\* most parsing tasks started before re-parse requests stop
MaxParseTasks == 2

(***************************************************************************)
(* Program constants                                                       *)
(***************************************************************************)
\* rag_service.py:88   limit=3 of the per-document search
SearchLimit == 3
\* rag_service.py:150  SIMILARITY_THRESHOLD = 0.75
SIMILARITY_THRESHOLD == 75
\* rag_service.py:151  max_chunks = len(enabled_document_ids) * 3
ChunksPerDocument == 3
\* rag_service.py:200  max_tokens: int = 120000
DefaultMaxTokens == 120000

(***************************************************************************)
(* Input domains                                                           *)
(***************************************************************************)
Docs == {"d1", "d2"}
\* score levels: below the threshold, at it, and above it
Scores == {60, 75, 80, 90}
Texts == {"a"}
Queries == {<<"q">>}
Users == {"u1"}
ChatIds == {"c1"}
Roles == {"user", "assistant"}
\* message contents of 1 and 2 tokens
MsgContents == {<<"w">>, <<"w", "w">>}
\* system messages of 1 and 2 tokens, queries of 0 and 1 token
SystemMessages == {<<"s">>, <<"s", "s">>}
FitQueries == {<<>>, <<"q">>}
Budgets == 2..MaxBudget
\* authenticated callers (current_user['email']) and the ids uuid4 hands out
Callers == {"u1", "u2"}
ChatPool == {"c1", "c2"}
KbLists == {<<"kb1">>, <<"kb1", "kb1">>}
NoChat == [id |-> "none", user_id |-> "none", knowledge_base_ids |-> <<>>]
NoMessage == [chat_id |-> "none", content |-> <<>>, role |-> "none", user_id |-> "none"]

\* document_name stored with a document's chunks in the index
DocumentName(d) == IF d = "d1" THEN "n1" ELSE "n2"

Range(s) == {s[k] : k \in 1..Len(s)}

SeqsUpTo(S, n) == UNION {[1..m -> S] : m \in 0..n}

\* enabled_document_ids is a Python list: order matters and an id may repeat
\* (documents.py:310-320 extends the list once per knowledge-base id)
EnabledLists == SeqsUpTo(Docs, MaxEnabled)

\* a hit of the index: entity text and distance
Hits == [text : Texts, score : Scores]

\* what one search returns: at most SearchLimit hits, ranked by the index
\* (highest score first)
HitLists ==
    {h \in SeqsUpTo(Hits, SearchLimit) :
        \A k \in 1..(Len(h) - 1) : h[k].score >= h[k + 1].score}

\* a stored message as manage_context_window reads it
Messages == [role : Roles, content : MsgContents]

Histories == SeqsUpTo(Messages, MaxTurns)

\* the arguments of generate_response: retrieved passages, prior turns, and
\* the optional chat_id and user_id ("none": left at the default None)
PassageTexts == {<<"a">>, <<"b">>}
ContextDicts ==
    [text : PassageTexts, document_name : {DocumentName(d) : d \in Docs}, score : {90}]
GenContexts == SeqsUpTo(ContextDicts, MaxContexts)
GenHistories == SeqsUpTo([role : Roles, content : {<<"w">>}], MaxPrior)
OptionalChatIds == ChatIds \cup {"none"}
OptionalUserIds == Users \cup {"none"}
\* response.usage as the generation provider reports it
ProviderUsages == [prompt_tokens : {5, 7}, completion_tokens : {2}]

\* identity strings (current_user['email']) as sequences of characters: a
\* lower-case and an upper-case letter and the three separators
Chars == {"a", "A", ".", "@", "_"}
Identities == SeqsUpTo(Chars, MaxIdentity)
\* the identity strings of the two callers
Email(u) == IF u = "u1" THEN <<"a", ".", "b", "@", "c">> ELSE <<"a", "_", "b", "@", "c">>
\* ids uuid4 hands out to knowledge bases and documents, and the one title
KbPool == {"kb1"}
DocPool == {"d1"}
KbTitles == {"t"}

VARIABLES
    pc,                   \* position inside get_relevant_chunks
    args,                 \* query, user_id, chat_id of the call
    enabled_document_ids, \* the list argument
    doc_idx,              \* position of the step-1 loop in the list
    all_chunks,           \* rag_service.py:77
    chunks_by_doc,        \* rag_service.py:78 (<<>>: key absent)
    search_errors,        \* documents whose search raised (caught at :121)
    outcome,              \* how the call ended
    final_chunks,         \* rag_service.py:131, as returned order
    missing_docs,         \* rag_service.py:134
    error_docs,           \* the ids the raised error names (:145, :186)
    contexts,             \* the returned list
    represented_docs,     \* rag_service.py:171
    usage_records         \* the token_usage table

ragVars == <<pc, args, enabled_document_ids, doc_idx, all_chunks, chunks_by_doc,
             search_errors, outcome, final_chunks, missing_docs, error_docs,
             contexts, represented_docs, usage_records>>

VARIABLES
    fit_pc,          \* position inside manage_context_window
    system_message,  \* argument
    chat_history,    \* argument
    query,           \* argument
    max_tokens,      \* argument
    total_tokens,    \* rag_service.py:204
    message_tokens,  \* rag_service.py:211, a list of <<msg, tokens>>
    managed_history  \* the returned list

fitVars == <<fit_pc, system_message, chat_history, query, max_tokens,
             total_tokens, message_tokens, managed_history>>

VARIABLES
    chats,               \* the chats table
    messages,            \* the messages table, in created_at order
    cm_pc,               \* position inside create_message
    cm_request,          \* caller, chat_id and message.content
    cm_chat,             \* chats.py:104
    cm_history,          \* chats.py:109
    cm_user_message,     \* chats.py:112
    cm_error,            \* the exception caught at chats.py:157
    generation_calls,    \* calls of rag_service.generate_response (:138)
    response             \* what the endpoint answered

chatVars == <<chats, messages, cm_pc, cm_request, cm_chat, cm_history,
              cm_user_message, cm_error, generation_calls, response>>

VARIABLES
    gen_pc,               \* position inside generate_response
    gen_args,             \* query, contexts, chat_history, chat_id, user_id
    gen_managed_history,  \* rag_service.py:301
    gen_messages,         \* rag_service.py:314
    gen_usage,            \* response.usage of the provider's answer
    gen_result            \* how the call ended

genVars == <<gen_pc, gen_args, gen_managed_history, gen_messages, gen_usage,
             gen_result>>

\* the state of get_relevant_chunks without the token_usage table
ragLocal == <<pc, args, enabled_document_ids, doc_idx, all_chunks, chunks_by_doc,
              search_errors, outcome, final_chunks, missing_docs, error_docs,
              contexts, represented_docs>>

VARIABLES
    nm_pc,        \* "idle", "derived", "rederived"
    nm_identity,  \* the identity string the name is derived from
    nm_name,      \* collection_name
    nm_again      \* the name derived from collection_name

nameVars == <<nm_pc, nm_identity, nm_name, nm_again>>

VARIABLES
    knowledge_bases,   \* the knowledge_bases table
    documents,         \* the documents table
    parsed_documents,  \* the parsed_documents table (ids)
    index_entries,     \* the vector index: collection name and document_id
    s3_objects,        \* the bucket: user, knowledge base and document of a key
    del_response,      \* what the last deletion request answered
    parse_tasks        \* the background parsing tasks, in the order they were added

storeVars == <<knowledge_bases, documents, parsed_documents, index_entries,
               s3_objects, del_response, parse_tasks>>

vars == <<ragVars, fitVars, chatVars, genVars, nameVars, storeVars>>

\* what a step of get_relevant_chunks leaves alone, and a step of
\* manage_context_window
outsideRag == <<fitVars, chatVars, genVars, nameVars, storeVars>>

outsideFit == <<ragVars, chatVars, genVars, nameVars, storeVars>>

outsideChat == <<ragVars, fitVars, genVars, nameVars, storeVars>>

\* and a step of generate_response, which writes to the token_usage table
outsideGen == <<ragLocal, fitVars, chatVars, nameVars, storeVars>>

\* a derivation of the collection name
outsideName == <<ragVars, fitVars, chatVars, genVars, storeVars>>

\* a request to the knowledge-base and document endpoints
outsideStore == <<ragVars, fitVars, chatVars, genVars, nameVars>>

(***************************************************************************)
(* RAGService.count_tokens                                                 *)
(***************************************************************************)
count_tokens(text) == Len(text)

(***************************************************************************)
(* TokenUsageRepository.create_usage_record                                *)
(***************************************************************************)
\* put_item of a record under a fresh uuid4 id (token_usage.py:17-31)
create_usage_record_overwriting(table, record) == <<record>>

create_usage_record(table, record) == Append(table, record)

(***************************************************************************)
(* The collection name of a user (rag_service.py:64-68)                    *)
(***************************************************************************)
\* str.replace of one character by another
ReplaceChar(s, from, to) == [k \in 1..Len(s) |-> IF s[k] = from THEN to ELSE s[k]]

\* '__' in collection_name
HasDouble(s) == \E k \in 1..(Len(s) - 1) : s[k] = "_" /\ s[k + 1] = "_"

\* collection_name.replace('__', '_'): every non-overlapping occurrence,
\* from the left
RECURSIVE ReplaceDouble(_)
ReplaceDouble(s) ==
    IF Len(s) < 2 THEN s
    ELSE IF s[1] = "_" /\ s[2] = "_"
         THEN <<"_">> \o ReplaceDouble(SubSeq(s, 3, Len(s)))
         ELSE <<s[1]>> \o ReplaceDouble(Tail(s))

\* while '__' in collection_name: collection_name = ....replace('__', '_')
CollapseOnce(s) == ReplaceDouble(s)

RECURSIVE Collapse(_)
Collapse(s) == IF HasDouble(s) THEN Collapse(ReplaceDouble(s)) ELSE s

\* collection_name.rstrip('_')
RStripOmitted(s) == s

RECURSIVE RStrip(_)
RStrip(s) ==
    IF s # <<>> /\ s[Len(s)] = "_" THEN RStrip(SubSeq(s, 1, Len(s) - 1)) ELSE s

\* the derivation (:65-68)
collection_name(user_id) ==
    RStrip(Collapse(ReplaceChar(ReplaceChar(user_id, ".", "_"), "@", "_")))

(***************************************************************************)
(* Pure parts of RAGService.get_relevant_chunks                            *)
(***************************************************************************)
\* the chunk dict built from a hit of the search for document d (:106-111)
Chunk(d, h) ==
    [text |-> h.text, document_name |-> DocumentName(d),
     document_id |-> d, score |-> h.score]

ChunksOf(d, hits) == [k \in 1..Len(hits) |-> Chunk(d, hits[k])]

\* list.sort(key=score, reverse=True): stable, equal scores keep their order
RECURSIVE InsertByScore(_, _)
InsertByScore(c, s) ==
    IF s = <<>> THEN <<c>>
    ELSE IF Head(s).score >= c.score
         THEN <<Head(s)>> \o InsertByScore(c, Tail(s))
         ELSE <<c>> \o s

RECURSIVE SortFrom(_, _)
SortFrom(sorted, rest) ==
    IF rest = <<>> THEN sorted
    ELSE SortFrom(InsertByScore(Head(rest), sorted), Tail(rest))

SortByScoreDesc(s) == SortFrom(<<>>, s)

\* max(chunks, key=score): the first chunk of maximal score (:138)
BestChunk(s) ==
    s[CHOOSE k \in 1..Len(s) :
        /\ \A j \in 1..Len(s) : s[j].score <= s[k].score
        /\ \A j \in 1..(k - 1) : s[j].score < s[k].score]

\* FIRST PASS (:135-139): the best chunk of each listed document, in list order
RECURSIVE FirstPassBelowThresholdSkipped(_, _)
FirstPassBelowThresholdSkipped(ids, cbd) ==
    IF ids = <<>> THEN <<>>
    ELSE (IF cbd[Head(ids)] # <<>>
             /\ BestChunk(cbd[Head(ids)]).score >= SIMILARITY_THRESHOLD
          THEN <<BestChunk(cbd[Head(ids)])>> ELSE <<>>)
         \o FirstPassBelowThresholdSkipped(Tail(ids), cbd)

\* only the first listed document is given its best chunk
FirstPassHeadOnly(ids, cbd) ==
    IF ids # <<>> /\ cbd[Head(ids)] # <<>>
    THEN <<BestChunk(cbd[Head(ids)])>> ELSE <<>>

RECURSIVE FirstPass(_, _)
FirstPass(ids, cbd) ==
    IF ids = <<>> THEN <<>>
    ELSE (IF cbd[Head(ids)] # <<>>
          THEN <<BestChunk(cbd[Head(ids)])>> ELSE <<>>)
         \o FirstPass(Tail(ids), cbd)

\* FIRST PASS (:140-141): the listed documents without chunks, in list order
MissingDocsFirstOnly(ids, cbd) ==
    IF \E k \in 1..Len(ids) : cbd[ids[k]] = <<>>
    THEN <<ids[CHOOSE k \in 1..Len(ids) :
                /\ cbd[ids[k]] = <<>>
                /\ \A j \in 1..(k - 1) : cbd[ids[j]] # <<>>]>>
    ELSE <<>>

RECURSIVE MissingDocs(_, _)
MissingDocs(ids, cbd) ==
    IF ids = <<>> THEN <<>>
    ELSE (IF cbd[Head(ids)] # <<>> THEN <<>> ELSE <<Head(ids)>>)
         \o MissingDocs(Tail(ids), cbd)

\* SECOND PASS (:154-158) over the globally ranked list
RECURSIVE SecondPassNoThreshold(_, _, _)
SecondPassNoThreshold(final, ranked, max_chunks) ==
    IF ranked = <<>> \/ Len(final) >= max_chunks THEN final
    ELSE IF Head(ranked) \notin Range(final)
         THEN SecondPassNoThreshold(Append(final, Head(ranked)), Tail(ranked), max_chunks)
         ELSE SecondPassNoThreshold(final, Tail(ranked), max_chunks)

RECURSIVE SecondPassAppendAll(_, _, _)
SecondPassAppendAll(final, ranked, max_chunks) ==
    IF ranked = <<>> THEN final
    ELSE IF Head(ranked).score >= SIMILARITY_THRESHOLD
         THEN SecondPassAppendAll(Append(final, Head(ranked)), Tail(ranked), max_chunks)
         ELSE SecondPassAppendAll(final, Tail(ranked), max_chunks)

\* the loop stops one entry short of max_chunks
RECURSIVE SecondPassCapOneShort(_, _, _)
SecondPassCapOneShort(final, ranked, max_chunks) ==
    IF ranked = <<>> \/ Len(final) >= max_chunks - 1 THEN final
    ELSE IF Head(ranked) \notin Range(final)
            /\ Head(ranked).score >= SIMILARITY_THRESHOLD
         THEN SecondPassCapOneShort(Append(final, Head(ranked)), Tail(ranked), max_chunks)
         ELSE SecondPassCapOneShort(final, Tail(ranked), max_chunks)

RECURSIVE SecondPass(_, _, _)
SecondPass(final, ranked, max_chunks) ==
    IF ranked = <<>> \/ Len(final) >= max_chunks THEN final
    ELSE IF Head(ranked) \notin Range(final)
            /\ Head(ranked).score >= SIMILARITY_THRESHOLD
         THEN SecondPass(Append(final, Head(ranked)), Tail(ranked), max_chunks)
         ELSE SecondPass(final, Tail(ranked), max_chunks)

\* final_chunks.sort(key=score, reverse=True) (:161)
FinalSortOmitted(s) == s

FinalSort(s) == SortByScoreDesc(s)

\* Step 4 (:173-178): the returned dicts carry text, document_name and score
FormatContexts(final) ==
    [k \in 1..Len(final) |->
        [text |-> final[k].text, document_name |-> final[k].document_name,
         score |-> final[k].score]]

Failure(kind, missing, named) ==
    [outcome |-> kind, final_chunks |-> <<>>, missing_docs |-> missing,
     error_docs |-> named, contexts |-> <<>>, represented_docs |-> {}]

\* Steps 2-4 of get_relevant_chunks (:127-193) on the collected chunks
BuildContext(ids, all, cbd) ==
    LET ranked == SortByScoreDesc(all)
        first == FirstPass(ids, cbd)
        missing == MissingDocs(ids, cbd)
        max_chunks == Len(ids) * ChunksPerDocument
        final == FinalSort(SecondPass(first, ranked, max_chunks))
        represented == {final[k].document_id : k \in 1..Len(final)}
        missing_in_final == Range(ids) \ represented
    IN  IF missing # <<>>
        THEN Failure("IncompleteRepresentation", missing, Range(missing))   \* :144-147
        ELSE IF final = <<>>
        THEN Failure("EmptySequence", missing, {})     \* :165 min() of no chunks
        ELSE IF missing_in_final # {}
        THEN Failure("IncompleteRepresentation", missing, missing_in_final) \* :184-188
        ELSE [outcome |-> "ok", final_chunks |-> final, missing_docs |-> missing,
              error_docs |-> {}, contexts |-> FormatContexts(final),
              represented_docs |-> represented]

(***************************************************************************)
(* RAGService.get_relevant_chunks as a state machine                       *)
(***************************************************************************)
RagInit ==
    /\ pc = "idle"
    /\ args = [query |-> <<>>, user_id |-> "", chat_id |-> ""]
    /\ enabled_document_ids = <<>>
    /\ doc_idx = 1
    /\ all_chunks = <<>>
    /\ chunks_by_doc = [d \in Docs |-> <<>>]
    /\ search_errors = {}
    /\ outcome = "none"
    /\ final_chunks = <<>>
    /\ missing_docs = <<>>
    /\ error_docs = {}
    /\ contexts = <<>>
    /\ represented_docs = {}
    /\ usage_records = <<>>

\* the call (:53-68), with the document list drawn from the given set
GetRelevantChunksFrom(idLists) ==
    /\ pc = "idle"
    /\ \E q \in Queries, u \in Users, c \in ChatIds, ids \in idLists :
          /\ args' = [query |-> q, user_id |-> u, chat_id |-> c]
          /\ enabled_document_ids' = ids
    /\ pc' = "embed"
    /\ UNCHANGED <<doc_idx, all_chunks, chunks_by_doc, search_errors, outcome,
                   final_chunks, missing_docs, error_docs, contexts,
                   represented_docs, usage_records>>
    /\ UNCHANGED outsideRag

GetRelevantChunks == GetRelevantChunksFrom(EnabledLists)

\* get_embedding (:27-48): the provider answers, the usage record is written
GetEmbedding ==
    /\ pc = "embed"
    /\ usage_records' = create_usage_record(usage_records,
          [user_id |-> args.user_id, chat_id |-> args.chat_id,
           completion_tokens |-> 0, prompt_tokens |-> 0,
           embedding_tokens |-> count_tokens(args.query),
           operation_type |-> "embedding"])
    /\ pc' = "search"
    /\ UNCHANGED <<args, enabled_document_ids, doc_idx, all_chunks, chunks_by_doc,
                   search_errors, outcome, final_chunks, missing_docs, error_docs,
                   contexts, represented_docs>>
    /\ UNCHANGED outsideRag

\* get_embedding (:49-51): embed_query raises, the error is re-raised
GetEmbeddingRaises ==
    /\ pc = "embed"
    /\ pc' = "done"
    /\ outcome' = "EmbeddingProviderError"
    /\ UNCHANGED <<args, enabled_document_ids, doc_idx, all_chunks, chunks_by_doc,
                   search_errors, final_chunks, missing_docs, error_docs, contexts,
                   represented_docs, usage_records>>
    /\ UNCHANGED outsideRag

\* one iteration of the step-1 loop (:81-117): the search returns hits.  The
\* filter (:82) makes every hit a chunk of doc_id, and output_fields (:89)
\* makes every entity carry text and document_id, so each hit passes the
\* tests at :100 and :104; no result set and an empty one add nothing.
SearchDocument ==
    /\ pc = "search"
    /\ doc_idx <= Len(enabled_document_ids)
    /\ \E hits \in HitLists :
          LET doc_id == enabled_document_ids[doc_idx]
              chunks == ChunksOf(doc_id, hits)
          IN  /\ all_chunks' = all_chunks \o chunks
              /\ chunks_by_doc' =
                    [chunks_by_doc EXCEPT ![doc_id] = @ \o chunks]
    /\ doc_idx' = doc_idx + 1
    /\ UNCHANGED <<pc, args, enabled_document_ids, search_errors, outcome,
                   final_chunks, missing_docs, error_docs, contexts,
                   represented_docs, usage_records>>
    /\ UNCHANGED outsideRag

\* what the except clause of the loop does with a search error (:121-125)
SearchErrorPropagated(o) == [pc |-> "done", outcome |-> "IndexQueryError"]

OnSearchError(o) == [pc |-> "search", outcome |-> o]

\* one iteration of the step-1 loop: the search raises
SearchDocumentRaises ==
    /\ pc = "search"
    /\ doc_idx <= Len(enabled_document_ids)
    /\ search_errors' = search_errors \cup {enabled_document_ids[doc_idx]}
    /\ pc' = OnSearchError(outcome).pc
    /\ outcome' = OnSearchError(outcome).outcome
    /\ doc_idx' = doc_idx + 1
    /\ UNCHANGED <<args, enabled_document_ids, all_chunks, chunks_by_doc,
                   final_chunks, missing_docs, error_docs, contexts,
                   represented_docs, usage_records>>
    /\ UNCHANGED outsideRag

\* steps 2-4 after the loop (:127-193)
BuildFinalContext ==
    /\ pc = "search"
    /\ doc_idx > Len(enabled_document_ids)
    /\ LET r == BuildContext(enabled_document_ids, all_chunks, chunks_by_doc)
       IN  /\ outcome' = r.outcome
           /\ final_chunks' = r.final_chunks
           /\ missing_docs' = r.missing_docs
           /\ error_docs' = r.error_docs
           /\ contexts' = r.contexts
           /\ represented_docs' = r.represented_docs
    /\ pc' = "done"
    /\ UNCHANGED <<args, enabled_document_ids, doc_idx, all_chunks, chunks_by_doc,
                   search_errors, usage_records>>
    /\ UNCHANGED outsideRag

RagNext ==
    \/ GetRelevantChunks
    \/ GetEmbedding
    \/ GetEmbeddingRaises
    \/ SearchDocument
    \/ SearchDocumentRaises
    \/ BuildFinalContext


(***************************************************************************)
(* RAGService.manage_context_window as a state machine                     *)
(***************************************************************************)
FitInit ==
    /\ fit_pc = "idle"
    /\ system_message = <<>>
    /\ chat_history = <<>>
    /\ query = <<>>
    /\ max_tokens = 0
    /\ total_tokens = 0
    /\ message_tokens = <<>>
    /\ managed_history = <<>>

RECURSIVE SumTokens(_)
SumTokens(mt) == IF mt = <<>> THEN 0 ELSE Head(mt)[2] + SumTokens(Tail(mt))

\* the (message, tokens) tuples of :211-214
WithTokensRoleCounted(history) ==
    [k \in 1..Len(history) |-> <<history[k], count_tokens(history[k].content) + 1>>]

WithTokens(history) ==
    [k \in 1..Len(history) |-> <<history[k], count_tokens(history[k].content)>>]

\* [msg for msg, _ in message_tokens] (:228)
MessagesOf(mt) == [k \in 1..Len(mt) |-> mt[k][1]]

\* the call and the fixed parts (:195-205)
ManageContextWindow ==
    /\ fit_pc = "idle"
    /\ \E sm \in SystemMessages, h \in Histories, q \in FitQueries, mx \in Budgets :
          /\ system_message' = sm
          /\ chat_history' = h
          /\ query' = q
          /\ max_tokens' = mx
          /\ total_tokens' = count_tokens(sm) + count_tokens(q)
    /\ fit_pc' = "fixed"
    /\ UNCHANGED <<message_tokens, managed_history>>
    /\ UNCHANGED outsideFit

\* if not chat_history: return [] (:207-208)
ReturnNoHistory ==
    /\ fit_pc = "fixed"
    /\ chat_history = <<>>
    /\ managed_history' = <<>>
    /\ fit_pc' = "done"
    /\ UNCHANGED <<system_message, chat_history, query, max_tokens, total_tokens,
                   message_tokens>>
    /\ UNCHANGED outsideFit

\* the per-message token counts (:211-215)
CountHistory ==
    /\ fit_pc = "fixed"
    /\ chat_history # <<>>
    /\ message_tokens' = WithTokens(chat_history)
    /\ total_tokens' = total_tokens + SumTokens(WithTokens(chat_history))
    /\ fit_pc' = "counted"
    /\ UNCHANGED <<system_message, chat_history, query, max_tokens, managed_history>>
    /\ UNCHANGED outsideFit

\* under the limit: the full history (:218-219)
ReturnFullHistory ==
    /\ fit_pc = "counted"
    /\ total_tokens <= max_tokens
    /\ managed_history' = chat_history
    /\ fit_pc' = "done"
    /\ UNCHANGED <<system_message, chat_history, query, max_tokens, total_tokens,
                   message_tokens>>
    /\ UNCHANGED outsideFit

\* over the limit: on to the while loop (:218, :223)
StartTrimming ==
    /\ fit_pc = "counted"
    /\ total_tokens > max_tokens
    /\ fit_pc' = "trim"
    /\ UNCHANGED <<system_message, chat_history, query, max_tokens, total_tokens,
                   message_tokens, managed_history>>
    /\ UNCHANGED outsideFit

\* message_tokens.pop(0): the removed tuple and the tuples left (:224)
PopNewest(mt) == <<mt[Len(mt)], SubSeq(mt, 1, Len(mt) - 1)>>

PopOldest(mt) == <<Head(mt), Tail(mt)>>

\* the while condition (:223)
TrimConditionFloorOfThree(total, mx, n) == total > mx /\ n > 3

TrimConditionNoFloor(total, mx, n) == total > mx /\ n > 0

TrimConditionDownToFloor(total, mx, n) == n > 2

\* a total equal to the budget still counts as over it
TrimConditionAtBudget(total, mx, n) == total >= mx /\ n > 2

TrimCondition(total, mx, n) == total > mx /\ n > 2

\* one iteration of the while loop (:224-225)
RemoveOldest ==
    /\ fit_pc = "trim"
    /\ TrimCondition(total_tokens, max_tokens, Len(message_tokens))
    /\ message_tokens' = PopOldest(message_tokens)[2]
    /\ total_tokens' = total_tokens - PopOldest(message_tokens)[1][2]
    /\ UNCHANGED <<fit_pc, system_message, chat_history, query, max_tokens,
                   managed_history>>
    /\ UNCHANGED outsideFit

\* the loop ends: the remaining messages (:228)
ReturnTrimmed ==
    /\ fit_pc = "trim"
    /\ ~TrimCondition(total_tokens, max_tokens, Len(message_tokens))
    /\ managed_history' = MessagesOf(message_tokens)
    /\ fit_pc' = "done"
    /\ UNCHANGED <<system_message, chat_history, query, max_tokens, total_tokens,
                   message_tokens>>
    /\ UNCHANGED outsideFit

FitNext ==
    \/ ManageContextWindow
    \/ ReturnNoHistory
    \/ CountHistory
    \/ ReturnFullHistory
    \/ StartTrimming
    \/ RemoveOldest
    \/ ReturnTrimmed

(***************************************************************************)
(* RAGService.generate_response                                            *)
(***************************************************************************)
GenInit ==
    /\ gen_pc = "idle"
    /\ gen_args = [query |-> <<>>, contexts |-> <<>>, chat_history |-> <<>>,
                   chat_id |-> "none", user_id |-> "none"]
    /\ gen_managed_history = <<>>
    /\ gen_messages = <<>>
    /\ gen_usage = [prompt_tokens |-> 0, completion_tokens |-> 0]
    /\ gen_result = "none"

\* the while loop of manage_context_window (:223-225) run to its end
RECURSIVE TrimLoop(_, _, _)
TrimLoop(mt, total, mx) ==
    IF TrimCondition(total, mx, Len(mt))
    THEN TrimLoop(PopOldest(mt)[2], total - PopOldest(mt)[1][2], mx)
    ELSE mt

\* manage_context_window as generate_response calls it (:195-228)
manage_context_window(sm, h, q, mx) ==
    IF h = <<>>
    THEN <<>>
    ELSE LET mt == WithTokens(h)
             total == count_tokens(sm) + count_tokens(q) + SumTokens(mt)
         IN  IF total <= mx THEN h ELSE MessagesOf(TrimLoop(mt, total, mx))

\* a piece of the system message: what it is, its label, its text
Part(kind, label, text) == [kind |-> kind, label |-> label, text |-> text]

\* the instructions every system message starts with (:242-292)
SystemPrompt == <<Part("prompt", "", <<>>)>>

\* "\nFrom document '{document_name}':\n{text}\n" (:297)
ContextBlock(context) == Part("from_document", context.document_name, context.text)

\* if contexts: the header and one block per context (:294-298)
ContextSectionFirstOnly(ctxs) ==
    IF ctxs = <<>>
    THEN <<>>
    ELSE <<Part("context_header", "", <<>>), ContextBlock(ctxs[1])>>

ContextSection(ctxs) ==
    IF ctxs = <<>>
    THEN <<>>
    ELSE <<Part("context_header", "", <<>>)>>
            \o [k \in 1..Len(ctxs) |-> ContextBlock(ctxs[k])]

\* role = "Assistant" if msg["role"] == "assistant" else "Human" (:307)
RoleLabel(role) == IF role = "assistant" THEN "Assistant" ELSE "Human"

\* conversation_context: one "{role}: {content}\n" line per turn (:304-308)
ConversationContextNewestFirst(managed) ==
    [k \in 1..Len(managed) |->
        Part("turn", RoleLabel(managed[Len(managed) + 1 - k].role),
             managed[Len(managed) + 1 - k].content)]

ConversationContext(managed) ==
    [k \in 1..Len(managed) |-> Part("turn", RoleLabel(managed[k].role), managed[k].content)]

\* if conversation_context: "Previous conversation:\n" and the lines (:310-311)
ConversationSection(managed) ==
    IF ConversationContext(managed) = <<>>
    THEN <<>>
    ELSE <<Part("conversation_header", "", <<>>)>> \o ConversationContext(managed)

\* the tokens of a system message: each piece's marker and text
RECURSIVE TokensOf(_)
TokensOf(parts) ==
    IF parts = <<>>
    THEN <<>>
    ELSE <<Head(parts).kind>> \o Head(parts).text \o TokensOf(Tail(parts))

\* managed_history (:301); None is read as no history at :305
ManagedHistoryOf(ctxs, h, q) ==
    IF h # <<>>
    THEN manage_context_window(TokensOf(SystemPrompt \o ContextSection(ctxs)), h, q,
                               DefaultMaxTokens)
    ELSE <<>>

\* messages (:314-317)
MessageList(ctxs, managed, q) ==
    <<[role |-> "system",
       content |-> SystemPrompt \o ContextSection(ctxs) \o ConversationSection(managed)],
      [role |-> "user", content |-> q]>>

\* the call up to the request to the provider (:230-317), with contexts and
\* history drawn from the given sets
GenerateResponseFrom(ctxSet, hSet) ==
    /\ gen_pc = "idle"
    /\ \E q \in Queries, ctxs \in ctxSet, h \in hSet,
          c \in OptionalChatIds, u \in OptionalUserIds :
          /\ gen_args' = [query |-> q, contexts |-> ctxs, chat_history |-> h,
                          chat_id |-> c, user_id |-> u]
          /\ gen_managed_history' = ManagedHistoryOf(ctxs, h, q)
          /\ gen_messages' = MessageList(ctxs, ManagedHistoryOf(ctxs, h, q), q)
    /\ gen_pc' = "request"
    /\ UNCHANGED <<gen_usage, gen_result, usage_records>>
    /\ UNCHANGED outsideGen

GenerateResponse == GenerateResponseFrom(GenContexts, GenHistories)

\* if chat_id and user_id (:328)
UsageRecorded(chat_id, user_id) == chat_id # "none" /\ user_id # "none"

\* the provider answers (:320-337): the usage record, then the content
CompletionReturns ==
    /\ gen_pc = "request"
    /\ \E usage \in ProviderUsages :
          /\ gen_usage' = usage
          /\ usage_records' =
                IF UsageRecorded(gen_args.chat_id, gen_args.user_id)
                THEN create_usage_record(usage_records,
                        [user_id |-> gen_args.user_id, chat_id |-> gen_args.chat_id,
                         completion_tokens |-> usage.completion_tokens,
                         prompt_tokens |-> usage.prompt_tokens,
                         embedding_tokens |-> 0,
                         operation_type |-> "chat"])
                ELSE usage_records
    /\ gen_result' = "ok"
    /\ gen_pc' = "done"
    /\ UNCHANGED <<gen_args, gen_managed_history, gen_messages>>
    /\ UNCHANGED outsideGen

\* the provider call raises (:338-340): the error is re-raised
CompletionRaises ==
    /\ gen_pc = "request"
    /\ gen_result' = "GenerationProviderError"
    /\ gen_pc' = "done"
    /\ UNCHANGED <<gen_args, gen_managed_history, gen_messages, gen_usage,
                   usage_records>>
    /\ UNCHANGED outsideGen

GenNext ==
    \/ GenerateResponse
    \/ CompletionReturns
    \/ CompletionRaises

(***************************************************************************)
(* The chat endpoints (chats.py) over the chats and messages tables        *)
(***************************************************************************)
ChatInit ==
    /\ chats = {}
    /\ messages = <<>>
    /\ cm_pc = "idle"
    /\ cm_request = [user |-> "none", chat_id |-> "none", content |-> <<>>]
    /\ cm_chat = NoChat
    /\ cm_history = <<>>
    /\ cm_user_message = NoMessage
    /\ cm_error = "none"
    /\ generation_calls = 0
    /\ response = [status |-> 0, detail |-> "none", user_message |-> NoMessage,
                   assistant_message |-> NoMessage]

\* ChatRepository.get_chat (chats repository :47-58): the item, if the caller owns it
GetChat(chat_id, user_id) ==
    IF \E c \in chats : c.id = chat_id /\ c.user_id = user_id
    THEN CHOOSE c \in chats : c.id = chat_id /\ c.user_id = user_id
    ELSE NoChat

\* MessageRepository.get_chat_messages (messages repository :32-47)
RECURSIVE GetChatMessages(_, _, _)
GetChatMessages(table, chat_id, user_id) ==
    IF table = <<>> THEN <<>>
    ELSE (IF Head(table).chat_id = chat_id /\ Head(table).user_id = user_id
          THEN <<Head(table)>> ELSE <<>>)
         \o GetChatMessages(Tail(table), chat_id, user_id)

\* create_chat (chats.py:44-52) with ChatRepository.create
CreateChat ==
    /\ \E u \in Callers, kbs \in KbLists, id \in ChatPool :
          /\ \A c \in chats : c.id # id
          /\ chats' = chats \cup {[id |-> id, user_id |-> u, knowledge_base_ids |-> kbs]}
    /\ UNCHANGED <<messages, cm_pc, cm_request, cm_chat, cm_history,
                   cm_user_message, cm_error, generation_calls, response>>
    /\ UNCHANGED outsideChat

\* a create_message request arrives (chats.py:95-101)
CreateMessage ==
    /\ cm_pc \in {"idle", "responded"}
    /\ Len(messages) < MaxStored
    /\ \E u \in Callers, c \in ChatPool, content \in MsgContents :
          cm_request' = [user |-> u, chat_id |-> c, content |-> content]
    /\ cm_pc' = "get_chat"
    /\ cm_chat' = NoChat
    /\ cm_history' = <<>>
    /\ cm_user_message' = NoMessage
    /\ cm_error' = "none"
    /\ generation_calls' = 0
    /\ response' = [status |-> 0, detail |-> "none", user_message |-> NoMessage,
                    assistant_message |-> NoMessage]
    /\ UNCHANGED <<chats, messages>>
    /\ UNCHANGED outsideChat

\* chats.py:104: the chat is the caller's
ChatFound ==
    /\ cm_pc = "get_chat"
    /\ GetChat(cm_request.chat_id, cm_request.user) # NoChat
    /\ cm_chat' = GetChat(cm_request.chat_id, cm_request.user)
    /\ cm_pc' = "get_history"
    /\ UNCHANGED <<chats, messages, cm_request, cm_history, cm_user_message,
                   cm_error, generation_calls, response>>
    /\ UNCHANGED outsideChat

\* chats.py:105-106: no such chat of the caller; the 404 is raised inside the try
ChatNotFound ==
    /\ cm_pc = "get_chat"
    /\ GetChat(cm_request.chat_id, cm_request.user) = NoChat
    /\ cm_error' = "404: Chat not found"
    /\ cm_pc' = "except"
    /\ UNCHANGED <<chats, messages, cm_request, cm_chat, cm_history,
                   cm_user_message, generation_calls, response>>
    /\ UNCHANGED outsideChat

\* chats.py:109
GetHistory ==
    /\ cm_pc = "get_history"
    /\ cm_history' = GetChatMessages(messages, cm_request.chat_id, cm_request.user)
    /\ cm_pc' = "save_user"
    /\ UNCHANGED <<chats, messages, cm_request, cm_chat, cm_user_message,
                   cm_error, generation_calls, response>>
    /\ UNCHANGED outsideChat

\* chats.py:112-117 with MessageRepository.create_message
SaveUserMessage ==
    /\ cm_pc = "save_user"
    /\ LET m == [chat_id |-> cm_request.chat_id, content |-> cm_request.content,
                 role |-> "user", user_id |-> cm_request.user]
       IN  /\ messages' = Append(messages, m)
           /\ cm_user_message' = m
    /\ cm_pc' = "update_last_modified"
    /\ UNCHANGED <<chats, cm_request, cm_chat, cm_history, cm_error,
                   generation_calls, response>>
    /\ UNCHANGED outsideChat

\* chats.py:120: ChatRepository (chats repository :7-58) defines create,
\* get_by_user, delete and get_chat only, so the attribute lookup raises
UpdateLastModified ==
    /\ cm_pc = "update_last_modified"
    /\ cm_error' = "AttributeError"
    /\ cm_pc' = "except"
    /\ UNCHANGED <<chats, messages, cm_request, cm_chat, cm_history,
                   cm_user_message, generation_calls, response>>
    /\ UNCHANGED outsideChat

\* what the except clause answers (chats.py:157-162)
ErrorResponseWithFallbackAnswer(err) ==
    [status |-> 200, detail |-> err, user_message |-> cm_user_message,
     assistant_message |-> [chat_id |-> cm_request.chat_id, content |-> <<>>,
                            role |-> "assistant", user_id |-> cm_request.user]]

ErrorResponse(err) ==
    [status |-> 500, detail |-> err, user_message |-> NoMessage,
     assistant_message |-> NoMessage]

\* the except clause stores an apology as the assistant's turn
HandleErrorStoringApology ==
    /\ cm_pc = "except"
    /\ response' = ErrorResponse(cm_error)
    /\ messages' = Append(messages, [chat_id |-> cm_request.chat_id, content |-> <<>>,
                                     role |-> "assistant", user_id |-> cm_request.user])
    /\ cm_pc' = "responded"
    /\ UNCHANGED <<chats, cm_request, cm_chat, cm_history,
                   cm_user_message, cm_error, generation_calls>>
    /\ UNCHANGED outsideChat

\* except Exception (chats.py:157-162)
HandleError ==
    /\ cm_pc = "except"
    /\ response' = ErrorResponse(cm_error)
    /\ cm_pc' = "responded"
    /\ UNCHANGED <<chats, messages, cm_request, cm_chat, cm_history,
                   cm_user_message, cm_error, generation_calls>>
    /\ UNCHANGED outsideChat

ChatNext ==
    \/ CreateChat
    \/ CreateMessage
    \/ ChatFound
    \/ ChatNotFound
    \/ GetHistory
    \/ SaveUserMessage
    \/ UpdateLastModified
    \/ HandleError

(***************************************************************************)
(* Derivations of the collection name                                      *)
(***************************************************************************)
NameInit ==
    /\ nm_pc = "idle"
    /\ nm_identity = <<>>
    /\ nm_name = <<>>
    /\ nm_again = <<>>

\* the name of an identity string (rag_service.py:64-68)
DeriveCollectionName ==
    /\ nm_pc = "idle"
    /\ \E id \in Identities :
          /\ nm_identity' = id
          /\ nm_name' = collection_name(id)
    /\ nm_pc' = "derived"
    /\ UNCHANGED nm_again
    /\ UNCHANGED outsideName

\* the derivation applied to a derived name
DeriveAgain ==
    /\ nm_pc = "derived"
    /\ nm_again' = collection_name(nm_name)
    /\ nm_pc' = "rederived"
    /\ UNCHANGED <<nm_identity, nm_name>>
    /\ UNCHANGED outsideName

NameNext ==
    \/ DeriveCollectionName
    \/ DeriveAgain

(***************************************************************************)
(* Knowledge bases, documents and the deletion endpoints                   *)
(***************************************************************************)
StoreInit ==
    /\ knowledge_bases = {}
    /\ documents = {}
    /\ parsed_documents = {}
    /\ index_entries = {}
    /\ s3_objects = {}
    /\ del_response = "none"
    /\ parse_tasks = <<>>

\* create_knowledge_base (knowledge_bases.py:21-41): one knowledge base per
\* title and user
CreateKnowledgeBase ==
    /\ \E u \in Callers, id \in KbPool, t \in KbTitles :
          /\ \A kb \in knowledge_bases : kb.id # id
          /\ ~\E kb \in knowledge_bases : kb.user_id = u /\ kb.title = t
          /\ knowledge_bases' =
                knowledge_bases \cup {[id |-> id, title |-> t, user_id |-> u]}
    /\ UNCHANGED <<documents, parsed_documents, index_entries, s3_objects,
                   del_response, parse_tasks>>
    /\ UNCHANGED outsideStore

\* a background task that runs ParserService.start_parsing on the document
\* dict it was given (documents.py:107 and :259); the POST is under way
ParseTask(d, kb, u, origin) ==
    [document_id |-> d, knowledge_base_id |-> kb, user_id |-> u,
     origin |-> origin, pc |-> "posted", answer |-> "none"]

\* upload_document (documents.py:43-122) with DocumentRepository.upload_document:
\* the file goes to the bucket and the item to the documents table, and the
\* parsing task is added (a uuid4 id was never used for a document before)
UploadDocument ==
    /\ \E u \in Callers, kb \in KbPool, d \in DocPool :
          /\ \E k \in knowledge_bases : k.id = kb /\ k.user_id = u
          /\ \A doc \in documents : doc.id # d
          /\ \A o \in s3_objects : o.document_id # d
          /\ \A e \in index_entries : e.document_id # d
          /\ d \notin parsed_documents
          /\ \A i \in 1..Len(parse_tasks) : parse_tasks[i].document_id # d
          /\ s3_objects' =
                s3_objects \cup {[user_id |-> u, knowledge_base_id |-> kb, document_id |-> d]}
          /\ documents' =
                documents \cup {[id |-> d, knowledge_base_id |-> kb, user_id |-> u,
                                 enabled |-> TRUE, parsing_status |-> "processing"]}
          /\ parse_tasks' = Append(parse_tasks, ParseTask(d, kb, u, "upload"))
    /\ UNCHANGED <<knowledge_bases, parsed_documents, index_entries, del_response>>
    /\ UNCHANGED outsideStore

\* the parser service called at parser_service.py:39-43 stores the parsed
\* document and its chunks, in the collection of the document's user
ParserStores ==
    /\ \E doc \in documents :
          /\ doc.id \notin parsed_documents
          /\ parsed_documents' = parsed_documents \cup {doc.id}
          /\ index_entries' =
                index_entries \cup {[collection_name |-> collection_name(Email(doc.user_id)),
                                     document_id |-> doc.id]}
    /\ UNCHANGED <<knowledge_bases, documents, s3_objects, del_response, parse_tasks>>
    /\ UNCHANGED outsideStore

\* the objects under "{user_id}/{knowledge_base_id}/{document_id}/"
UnderPrefix(u, kb, d) ==
    {o \in s3_objects : o.user_id = u /\ o.knowledge_base_id = kb /\ o.document_id = d}

\* milvus_client.delete(collection_name, filter="document_id == '...'")
EntriesOf(u, ds) ==
    {e \in index_entries :
        e.collection_name = collection_name(Email(u)) /\ e.document_id \in ds}

\* delete_document (documents.py:124-140) with DocumentRepository.delete_document
\* (:104-175); an error of the index or of the parsed_documents table is
\* logged and the deletion goes on
DeleteDocument ==
    /\ \E u \in Callers, kb \in KbPool, d \in DocPool, milvus_ok \in BOOLEAN :
          /\ \E doc \in documents : doc.id = d /\ doc.user_id = u
          /\ s3_objects' = s3_objects \ UnderPrefix(u, kb, d)
          /\ index_entries' =
                IF milvus_ok THEN index_entries \ EntriesOf(u, {d}) ELSE index_entries
          /\ parsed_documents' = parsed_documents \ {d}
          /\ documents' = {doc \in documents : doc.id # d}
    /\ del_response' = "Document deleted successfully"
    /\ UNCHANGED <<knowledge_bases, parse_tasks>>
    /\ UNCHANGED outsideStore

\* delete_knowledge_base (knowledge_bases.py:43-55) with
\* KnowledgeBaseRepository.delete (:75-166): the documents of the knowledge
\* base go first, then the knowledge base
DeleteKnowledgeBase ==
    /\ \E u \in Callers, id \in KbPool, milvus_ok \in BOOLEAN :
          LET ds == {doc.id : doc \in {x \in documents :
                                        x.knowledge_base_id = id /\ x.user_id = u}}
          IN  /\ \E kb \in knowledge_bases : kb.id = id /\ kb.user_id = u
              /\ s3_objects' = s3_objects \ UNION {UnderPrefix(u, id, d) : d \in ds}
              /\ index_entries' =
                    IF milvus_ok THEN index_entries \ EntriesOf(u, ds) ELSE index_entries
              /\ parsed_documents' = parsed_documents \ ds
              /\ documents' = {doc \in documents : doc.id \notin ds}
              /\ knowledge_bases' = {kb \in knowledge_bases : kb.id # id}
    /\ del_response' = "Knowledge base deleted successfully"
    /\ UNCHANGED parse_tasks
    /\ UNCHANGED outsideStore

(***************************************************************************)
(* The parsing tasks (parser_service.py, documents.py)                     *)
(***************************************************************************)
\* what the POST to the parser service ends with: 200 with status 'success',
\* any other response, httpx.TimeoutException, any other exception
ParserAnswers == {"success", "rejected", "timeout", "error"}

\* get_item finds the document and it is the user's (documents.py:214-220)
Updatable(docs, d, u) == \E doc \in docs : doc.id = d /\ doc.user_id = u

\* DocumentRepository.update_parsing_status (documents.py:205-232): the item
\* is put back with the new status; without the item the call raises and
\* the table stays as it is
update_parsing_status_kept(docs, d, st, u) == docs

update_parsing_status(docs, d, st, u) ==
    {IF doc.id = d /\ doc.user_id = u
     THEN [doc EXCEPT !.parsing_status = st] ELSE doc : doc \in docs}

\* the status start_parsing writes inside the request block for a response
\* (parser_service.py:47-68)
StatusForBodyIgnored(answer) ==
    IF answer \in {"success", "rejected"} THEN "done" ELSE "failed"

StatusFor(answer) == IF answer = "success" THEN "done" ELSE "failed"

\* start_parsing (the re-parse endpoint, documents.py:213-284): the task is
\* added for the caller's document and its status is set to 'processing'
StartParsing ==
    /\ Len(parse_tasks) < MaxParseTasks
    /\ \E u \in Callers, kb \in KbPool, d \in DocPool :
          /\ \E doc \in documents :
                doc.id = d /\ doc.user_id = u /\ doc.knowledge_base_id = kb
          /\ parse_tasks' = Append(parse_tasks, ParseTask(d, kb, u, "reparse"))
          /\ documents' = update_parsing_status(documents, d, "processing", u)
    /\ UNCHANGED <<knowledge_bases, parsed_documents, index_entries, s3_objects,
                   del_response>>
    /\ UNCHANGED outsideStore

\* ParserService.start_parsing, the POST ends (parser_service.py:39-69): a
\* response is answered by the status update inside the block (:52, :63);
\* it returns only after 'success' was written, everything else raises
ParserResponds(i) ==
    /\ parse_tasks[i].pc = "posted"
    /\ \E answer \in ParserAnswers :
          LET t == parse_tasks[i]
              found == Updatable(documents, t.document_id, t.user_id)
          IN  /\ documents' =
                    IF answer \in {"success", "rejected"}
                    THEN update_parsing_status(documents, t.document_id,
                                               StatusFor(answer), t.user_id)
                    ELSE documents
              /\ parse_tasks' =
                    [parse_tasks EXCEPT ![i].answer = answer,
                                        ![i].pc = IF answer = "success" /\ found
                                                  THEN "returning" ELSE "raising"]
    /\ UNCHANGED <<knowledge_bases, parsed_documents, index_entries, s3_objects,
                   del_response>>
    /\ UNCHANGED outsideStore

\* the except clauses of start_parsing (parser_service.py:71-92) set 'failed'
\* and raise; after an upload the wrapper's except clause (documents.py:97-105)
\* sets 'failed' once more
HandleParsingError(i) ==
    /\ parse_tasks[i].pc = "raising"
    /\ documents' = update_parsing_status(documents, parse_tasks[i].document_id,
                                          "failed", parse_tasks[i].user_id)
    /\ parse_tasks' = [parse_tasks EXCEPT ![i].pc = "finished"]
    /\ UNCHANGED <<knowledge_bases, parsed_documents, index_entries, s3_objects,
                   del_response>>
    /\ UNCHANGED outsideStore

\* start_parsing returned (parser_service.py:59); after an upload the wrapper
\* sets 'done' (documents.py:91-96), the task of the re-parse endpoint ends
ParsingReturns(i) ==
    /\ parse_tasks[i].pc = "returning"
    /\ documents' =
          IF parse_tasks[i].origin = "upload"
          THEN update_parsing_status(documents, parse_tasks[i].document_id,
                                     "done", parse_tasks[i].user_id)
          ELSE documents
    /\ parse_tasks' = [parse_tasks EXCEPT ![i].pc = "finished"]
    /\ UNCHANGED <<knowledge_bases, parsed_documents, index_entries, s3_objects,
                   del_response>>
    /\ UNCHANGED outsideStore

\* the steps of the i-th task
TaskStep(i) ==
    /\ i \in 1..Len(parse_tasks)
    /\ \/ ParserResponds(i)
       \/ HandleParsingError(i)
       \/ ParsingReturns(i)

\* uploads, re-parse requests, deletions and the steps of the tasks
ParseNext ==
    \/ CreateKnowledgeBase
    \/ UploadDocument
    \/ StartParsing
    \/ DeleteDocument
    \/ \E i \in 1..Len(parse_tasks) : ParserResponds(i)
    \/ \E i \in 1..Len(parse_tasks) : HandleParsingError(i)
    \/ \E i \in 1..Len(parse_tasks) : ParsingReturns(i)

\* MessageRepository.delete_by_chat_id (messages repository :49-65)
RECURSIVE DeleteByChatId(_, _, _)
DeleteByChatId(table, chat_id, user_id) ==
    IF table = <<>> THEN <<>>
    ELSE (IF Head(table).chat_id = chat_id /\ Head(table).user_id = user_id
          THEN <<>> ELSE <<Head(table)>>)
         \o DeleteByChatId(Tail(table), chat_id, user_id)

\* delete_chat (chats.py:54-80): the caller's chat, its messages first
DeleteChat ==
    /\ \E u \in Callers, c \in ChatPool :
          /\ GetChat(c, u) # NoChat
          /\ messages' = DeleteByChatId(messages, c, u)
          /\ chats' = chats \ {GetChat(c, u)}
    /\ del_response' = "Chat and associated messages deleted successfully"
    /\ UNCHANGED <<cm_pc, cm_request, cm_chat, cm_history, cm_user_message,
                   cm_error, generation_calls, response>>
    /\ UNCHANGED <<knowledge_bases, documents, parsed_documents, index_entries,
                   s3_objects, parse_tasks>>
    /\ UNCHANGED <<ragVars, fitVars, genVars, nameVars>>

\* a generate_response call without contexts and history
GenerateBare == GenerateResponseFrom({<<>>}, {<<>>})

\* a get_relevant_chunks call for one enabled document
RetrieveOne == GetRelevantChunksFrom({<<"d1">>})

\* the operations that write usage records, and the deletions
LedgerNext ==
    \/ RetrieveOne
    \/ GetEmbedding
    \/ GetEmbeddingRaises
    \/ GenerateBare
    \/ CompletionReturns
    \/ CompletionRaises
    \/ CreateChat
    \/ DeleteChat
    \/ CreateKnowledgeBase
    \/ UploadDocument
    \/ ParserStores
    \/ DeleteDocument
    \/ DeleteKnowledgeBase

(***************************************************************************)
(* Specifications                                                          *)
(***************************************************************************)
Init == RagInit /\ FitInit /\ ChatInit /\ GenInit /\ NameInit /\ StoreInit

\* calls of get_relevant_chunks
SpecRag == Init /\ [][RagNext]_vars

\* calls of manage_context_window
SpecFit == Init /\ [][FitNext]_vars

\* requests to the chat endpoints
SpecChat == Init /\ [][ChatNext]_vars

\* calls of generate_response
SpecGen == Init /\ [][GenNext]_vars

\* derivations of the collection name
SpecName == Init /\ [][NameNext]_vars

\* embedding and generation calls next to the deletion endpoints
SpecLedger == Init /\ [][LedgerNext]_vars

\* the parsing tasks: the POST ends within its timeouts and the event loop
\* runs every step of every task
SpecParse ==
    /\ Init
    /\ [][ParseNext]_vars
    /\ \A i \in 1..MaxParseTasks : WF_vars(TaskStep(i))

(***************************************************************************)
(* Properties of get_relevant_chunks (checked under SpecRag)              *)
(***************************************************************************)
Requested == Range(enabled_document_ids)

HasCandidates(d) == chunks_by_doc[d] # <<>>

\* the step-1 loop has ended and steps 2-4 have run
Built == pc = "done" /\ outcome # "EmbeddingProviderError"

Returned == pc = "done" /\ outcome = "ok"

\* c is a candidate of maximal score among those collected for its document
IsBestOfDocument(c) ==
    /\ c \in Range(chunks_by_doc[c.document_id])
    /\ \A x \in Range(chunks_by_doc[c.document_id]) : x.score <= c.score

D1(score) == Chunk("d1", [text |-> "a", score |-> score])

D2(score) == Chunk("d2", [text |-> "a", score |-> score])

\* C1 (as claimed): whenever every listed document has at least one
\* candidate, the call succeeds and the documents of the result are exactly
\* the listed ones.
C1_RepresentationGuarantee ==
    (Built /\ \A d \in Requested : HasCandidates(d))
        => (outcome = "ok" /\ represented_docs = Requested)

\* C2: if some listed document ends step 1 without candidates, the call
\* returns nothing and fails with the incomplete-representation error, which
\* names exactly the listed documents without candidates.
C2_MissingDocsNamedExactly ==
    (Built /\ \E d \in Requested : ~HasCandidates(d))
        => /\ outcome = "IncompleteRepresentation"
           /\ contexts = <<>>
           /\ final_chunks = <<>>
           /\ error_docs = {d \in Requested : ~HasCandidates(d)}
           /\ Range(missing_docs) = error_docs

C2_Witness ==
    /\ Built
    /\ enabled_document_ids = <<"d1", "d2">>
    /\ HasCandidates("d1")
    /\ ~HasCandidates("d2")
    /\ outcome = "IncompleteRepresentation"
    /\ error_docs = {"d2"}

\* C4: the result holds, for every listed document with candidates, a
\* candidate of that document of maximal score, whatever that score is; two
\* documents with one candidate each, scored 0.9 and 0.6, give exactly these
\* two entries.
C4_BestOfDocumentIncluded ==
    /\ Returned =>
          \A d \in Requested :
             \E k \in 1..Len(final_chunks) :
                /\ final_chunks[k].document_id = d
                /\ IsBestOfDocument(final_chunks[k])
    /\ (Built /\ enabled_document_ids = <<"d1", "d2">>
              /\ all_chunks = <<D1(90), D2(60)>>)
          => /\ outcome = "ok"
             /\ final_chunks = <<D1(90), D2(60)>>
             /\ Len(contexts) = 2

C4_Witness ==
    /\ Returned
    /\ enabled_document_ids = <<"d1", "d2">>
    /\ all_chunks = <<D1(90), D2(60)>>
    /\ final_chunks = <<D1(90), D2(60)>>

\* C5: every entry of the result that is not a best-of-document candidate
\* has a score of at least the threshold; of the candidates beyond the
\* mandatory ones only those at or above the threshold are appended.
C5_SupplementaryAtLeastThreshold ==
    /\ Returned =>
          \A k \in 1..Len(final_chunks) :
             \/ IsBestOfDocument(final_chunks[k])
             \/ final_chunks[k].score >= SIMILARITY_THRESHOLD
    /\ (Built /\ enabled_document_ids = <<"d1", "d2">>
              /\ all_chunks = <<D1(90), D1(75), D1(60), D2(90), D2(75)>>)
          => final_chunks = <<D1(90), D2(90), D1(75), D2(75)>>

C5_Witness ==
    /\ Returned
    /\ enabled_document_ids = <<"d1", "d2">>
    /\ all_chunks = <<D1(90), D1(75), D1(60), D2(90), D2(75)>>
    /\ Len(final_chunks) = 4

\* C6: the result never has more entries than three per listed document.
C6_SizeCap ==
    Returned =>
        /\ Len(final_chunks) <= Len(enabled_document_ids) * ChunksPerDocument
        /\ Len(contexts) = Len(final_chunks)

C6_Witness ==
    /\ Returned
    /\ Len(contexts) > Len(enabled_document_ids)
    /\ Len(all_chunks) > Len(contexts)

\* C7: the result is ordered by score, non-increasing, mandatory and
\* supplementary entries alike.
C7_SortedByScore ==
    Returned =>
        /\ \A k \in 1..(Len(final_chunks) - 1) :
              final_chunks[k].score >= final_chunks[k + 1].score
        /\ \A k \in 1..(Len(contexts) - 1) :
              contexts[k].score >= contexts[k + 1].score

\* a mandatory entry below the threshold placed after a supplementary entry
C7_Witness ==
    /\ Returned
    /\ \E k \in 1..(Len(final_chunks) - 1) :
          /\ ~IsBestOfDocument(final_chunks[k])
          /\ IsBestOfDocument(final_chunks[k + 1])
          /\ final_chunks[k + 1].score < SIMILARITY_THRESHOLD

\* C8 (as claimed): no candidate appears more than once in the result, for
\* every list of document ids, also one that repeats an id.
C8_NoDuplicates ==
    Returned =>
        \A j, k \in 1..Len(final_chunks) :
            j # k => final_chunks[j] # final_chunks[k]

\* C9: a search that raises counts as no candidates for that document: the
\* remaining documents are still searched, the search error never leaves the
\* call, and the call fails only with the incomplete-representation error,
\* which names the document when nothing else was found for it.
C9_SearchErrorAbsorbed ==
    /\ outcome # "IndexQueryError"
    /\ Built => doc_idx = Len(enabled_document_ids) + 1
    /\ (Built /\ search_errors # {})
          => outcome \in {"ok", "IncompleteRepresentation"}
    /\ Built =>
          \A d \in search_errors :
             ~HasCandidates(d)
                => (outcome = "IncompleteRepresentation" /\ d \in error_docs)

C9_Witness ==
    /\ Built
    /\ enabled_document_ids = <<"d1", "d2">>
    /\ search_errors = {"d1"}
    /\ HasCandidates("d2")
    /\ outcome = "IncompleteRepresentation"
    /\ error_docs = {"d1"}

(***************************************************************************)
(* Order of the per-document searches (checked under SpecRag)             *)
(***************************************************************************)

\* the listed ids are pairwise different
Distinct(ids) == Cardinality(Range(ids)) = Len(ids)

\* every order of the listed ids
OrdersOf(ids) ==
    {p \in [1..Len(ids) -> Range(ids)] : Range(p) = Range(ids)}

\* all_chunks as the loop of :81-125 fills it when it walks ids
RECURSIVE ChunksInOrder(_, _)
ChunksInOrder(ids, cbd) ==
    IF ids = <<>> THEN <<>>
    ELSE cbd[Head(ids)] \o ChunksInOrder(Tail(ids), cbd)

\* the result of get_relevant_chunks when the same per-document search
\* results are collected in the order ids
ResultFor(ids) == BuildContext(ids, ChunksInOrder(ids, chunks_by_doc), chunks_by_doc)

ScoresOf(s) == [k \in 1..Len(s) |-> s[k].score]

BestOfDocuments == {BestChunk(chunks_by_doc[d]) : d \in Requested}

\* the collected candidates at or above the similarity threshold
AtOrAboveThreshold ==
    {c \in Range(all_chunks) : c.score >= SIMILARITY_THRESHOLD}

C26_FailsOnlyOnMissingCandidates ==
    /\ (Built /\ outcome # "ok") => \E d \in Requested : ~HasCandidates(d)
    /\ (Built /\ enabled_document_ids = <<>>)
          => (outcome = "ok" /\ final_chunks = <<>> /\ contexts = <<>>)

(***************************************************************************)
(* Properties of manage_context_window (checked under SpecFit)            *)
(***************************************************************************)
RECURSIVE HistoryTokens(_)
HistoryTokens(h) ==
    IF h = <<>> THEN 0 ELSE Len(Head(h).content) + HistoryTokens(Tail(h))

\* tokens(system message) + tokens(query) + tokens of the returned turns
ReturnedTotal == Len(system_message) + Len(query) + HistoryTokens(managed_history)

\* C10 (as claimed): the returned history always fits the budget.
C10_BudgetAlwaysMet ==
    fit_pc = "done" => ReturnedTotal <= max_tokens

\* C10 (amended): the returned history fits the budget unless it has at
\* most 2 turns; only at that floor may the budget be exceeded.
C10_BudgetMetAboveFloor ==
    fit_pc = "done" => (ReturnedTotal <= max_tokens \/ Len(managed_history) <= 2)

\* trimming stopped above the floor because the rest fits
C10_Witness ==
    /\ fit_pc = "done"
    /\ Len(managed_history) < Len(chat_history)
    /\ Len(managed_history) > 2
    /\ ReturnedTotal <= max_tokens

\* turns were removed by the call that returned
Trimmed == fit_pc = "done" /\ Len(managed_history) < Len(chat_history)

\* the newest turn that was removed
LastRemoved == chat_history[Len(chat_history) - Len(managed_history)]

\* C11: when turns were removed, the returned history either fits the
\* budget or has exactly 2 turns, and removal stopped at the first such
\* point: with the last removed turn put back the total exceeded the budget.
C11_StopsAtFirstFitOrFloor ==
    Trimmed =>
        /\ (ReturnedTotal <= max_tokens \/ Len(managed_history) = 2)
        /\ ReturnedTotal + Len(LastRemoved.content) > max_tokens

\* several turns were removed and removal ended at the floor, over budget
C11_Witness ==
    /\ Trimmed
    /\ Len(chat_history) - Len(managed_history) >= 2
    /\ Len(managed_history) = 2
    /\ ReturnedTotal > max_tokens

\* C12: a history supplied with at least 2 turns is never returned with
\* fewer than 2, also when system message and query alone exceed the budget.
C12_FloorOfTwoTurns ==
    (fit_pc = "done" /\ Len(chat_history) >= 2) => Len(managed_history) >= 2

\* the fixed part alone is over budget and the two newest turns are kept
C12_Witness ==
    /\ fit_pc = "done"
    /\ Len(chat_history) >= 3
    /\ Len(system_message) + Len(query) > max_tokens
    /\ Len(managed_history) = 2

\* s is what is left of h after dropping its first k elements, for some k
IsSuffix(s, h) ==
    /\ Len(s) <= Len(h)
    /\ s = SubSeq(h, Len(h) - Len(s) + 1, Len(h))

\* C13: the returned history is a contiguous suffix of the supplied one
\* (turns only leave from the oldest end; order and content are kept) and
\* its token total is not larger than that of the supplied history.
C13_ContiguousSuffix ==
    fit_pc = "done" =>
        /\ IsSuffix(managed_history, chat_history)
        /\ HistoryTokens(managed_history) <= HistoryTokens(chat_history)

\* turns were removed from a history whose oldest and newest ends differ
C13_Witness ==
    /\ Trimmed
    /\ Len(managed_history) >= 2
    /\ managed_history # SubSeq(chat_history, 1, Len(managed_history))
    /\ HistoryTokens(managed_history) < HistoryTokens(chat_history)

\* C14: when system message, query and the whole history together are
\* within the budget, the history is returned unchanged.
C14_FittingHistoryUnchanged ==
    (/\ fit_pc = "done"
     /\ Len(system_message) + Len(query) + HistoryTokens(chat_history) <= max_tokens)
        => managed_history = chat_history

\* a history of three or more turns that fills the budget exactly
C14_Witness ==
    /\ fit_pc = "done"
    /\ Len(chat_history) >= 3
    /\ Len(system_message) + Len(query) + HistoryTokens(chat_history) = max_tokens
    /\ managed_history = chat_history

\* the last n turns of h
Suffix(h, n) == SubSeq(h, Len(h) - n + 1, Len(h))

\* the lengths of 2 or more whose suffix of the supplied history fits the
\* budget together with system message and query
FittingSuffixes ==
    {n \in 2..Len(chat_history) :
        Len(system_message) + Len(query) + HistoryTokens(Suffix(chat_history, n))
            <= max_tokens}

\* C27: when turns were removed, the returned history is the longest suffix
\* of the supplied one (of 2 or more turns) that fits the budget with system
\* message and query, or the last 2 turns if no such suffix fits; no turn is
\* dropped that could have been kept within the budget.
C27_TrimsMinimally ==
    Trimmed =>
        IF FittingSuffixes # {}
        THEN /\ Len(managed_history) \in FittingSuffixes
             /\ \A n \in FittingSuffixes : n <= Len(managed_history)
             /\ managed_history = Suffix(chat_history, Len(managed_history))
        ELSE managed_history = Suffix(chat_history, 2)

\* one turn was removed although the two newest turns alone would fit too:
\* the longer of the fitting suffixes is returned
C27_Witness ==
    /\ Trimmed
    /\ Cardinality(FittingSuffixes) >= 2
    /\ Len(managed_history) = 3

(***************************************************************************)
(* Properties of the usage records (checked under SpecRag and SpecGen)     *)
(***************************************************************************)
\* the call of embed_query (:36) was made
EmbeddingFired == pc \in {"search", "done"}

\* the call of client.chat.completions.create (:320) was made
GenerationFired == gen_pc = "done"

IsEmbeddingRecord(r) == r.operation_type = "embedding"

IsChatRecord(r) == r.operation_type = "chat"

EmbeddingRecords == SelectSeq(usage_records, IsEmbeddingRecord)

ChatRecords == SelectSeq(usage_records, IsChatRecord)

\* the record an embed call of the current arguments is to write
ExpectedEmbeddingRecord ==
    [user_id |-> args.user_id, chat_id |-> args.chat_id,
     completion_tokens |-> 0, prompt_tokens |-> 0,
     embedding_tokens |-> Len(args.query),
     operation_type |-> "embedding"]

\* C15: an embed call that reached the provider has written exactly one
\* 'embedding' record, with the token count of the text and prompt and
\* completion tokens 0; the record is there once a per-document search
\* was issued, and when retrieval ended incomplete.
C15_EmbeddingCallBilledOnce ==
    /\ EmbeddingFired => EmbeddingRecords = <<ExpectedEmbeddingRecord>>
    /\ ~EmbeddingFired => EmbeddingRecords = <<>>
    /\ doc_idx > 1 => EmbeddingRecords = <<ExpectedEmbeddingRecord>>
    /\ outcome = "IncompleteRepresentation"
          => EmbeddingRecords = <<ExpectedEmbeddingRecord>>

\* C16: once the embedding or the generation provider call was made, a
\* usage record of that call is in the table, however the call ended.
C16_BillOnAttempt ==
    /\ EmbeddingFired => EmbeddingRecords # <<>>
    /\ GenerationFired => ChatRecords # <<>>

\* C17: a generation call the provider answered has written exactly one
\* 'chat' record, carrying the prompt and completion token counts the
\* provider reported.
C17_GenerationBilledOnce ==
    (gen_pc = "done" /\ gen_result = "ok")
        => /\ Len(ChatRecords) = 1
           /\ ChatRecords[1].prompt_tokens = gen_usage.prompt_tokens
           /\ ChatRecords[1].completion_tokens = gen_usage.completion_tokens

\* C18: the token_usage table is append-only: a step of any operation
\* (embedding, generation, deletion of a chat, a document or a knowledge
\* base) keeps every record written so far, in place and unchanged.
C18_LedgerAppendOnly ==
    [][/\ Len(usage_records') >= Len(usage_records)
       /\ \A k \in 1..Len(usage_records) : usage_records'[k] = usage_records[k]]_vars

\* an embedding and a chat record are in the table after the knowledge
\* base and its document were deleted (their index entries stayed behind)
\* and, last, a chat was deleted; no chat of the chat record's id is left
C18_Witness ==
    /\ Len(usage_records) = 2
    /\ IsEmbeddingRecord(usage_records[1])
    /\ IsChatRecord(usage_records[2])
    /\ \A c \in chats : c.id # usage_records[2].chat_id
    /\ del_response = "Chat and associated messages deleted successfully"
    /\ knowledge_bases = {}
    /\ documents = {}
    /\ index_entries # {}

\* the callers whose derived collection name is the one the entry is kept in
AddressedBy(e) ==
    {u \in Callers : collection_name(Email(u)) = e.collection_name}

\* C29: the collection name is per-user: two distinct caller identities
\* never derive the same collection name, so the collection an index entry
\* is kept in is addressed, for search and for deletion, by the one user
\* who owns the entry's document.
C29_CollectionPerUser ==
    /\ \A e \in index_entries :
          \A doc \in documents :
             doc.id = e.document_id => AddressedBy(e) = {doc.user_id}
    /\ index_entries # {}
          => \A u, v \in Callers :
                collection_name(Email(u)) = collection_name(Email(v)) => u = v

(***************************************************************************)
(* Properties of the parsing status (checked under SpecParse)              *)
(***************************************************************************)
\* the tasks started for the document of id d
TasksOf(d) == {i \in 1..Len(parse_tasks) : parse_tasks[i].document_id = d}

Started(i) == i \in 1..Len(parse_tasks)

Finished(i) == Started(i) /\ parse_tasks[i].pc = "finished"

\* no task of the document is still under way
Settled(doc) == \A i \in TasksOf(doc.id) : Finished(i)

\* a stored document whose tasks have all ended is 'done' or 'failed', and a
\* 'done' document has a task the parser answered with 200 and 'success'
StatusFollowsParser ==
    \A doc \in documents :
        /\ Settled(doc) => doc.parsing_status \in {"done", "failed"}
        /\ doc.parsing_status = "done"
              => \E i \in TasksOf(doc.id) : parse_tasks[i].answer = "success"

\* a document enters the table with the status 'processing'
CreatedProcessing ==
    \A doc \in documents' :
        (\A old \in documents : old.id # doc.id) => doc.parsing_status = "processing"

\* the step that ends a task the parser did not answer with 'success' leaves
\* the task's document, if it is stored, 'failed'
FailureSetsFailed ==
    \A i \in 1..Len(parse_tasks) :
        (~Finished(i) /\ parse_tasks'[i].pc = "finished"
                      /\ parse_tasks'[i].answer # "success")
            => \A doc \in documents' :
                  doc.id = parse_tasks[i].document_id => doc.parsing_status = "failed"

\* C30: a document is created with parsing_status 'processing'; every
\* parsing task started on upload or by the re-parse endpoint eventually
\* ends and leaves the status of its stored document at 'done' or 'failed';
\* the status is 'done' only after the parser answered 200 with status
\* 'success', and any other response, timeout or error sets it to 'failed'.
C30_ParsingLifecycle ==
    /\ []StatusFollowsParser
    /\ [][CreatedProcessing /\ FailureSetsFailed]_vars
    /\ \A i \in 1..MaxParseTasks : Started(i) ~> Finished(i)

\* the upload's task was answered 'success', a re-parse was started and its
\* task timed out: both tasks have ended and the document is 'failed'
C30_Witness ==
    /\ Len(parse_tasks) = 2
    /\ Finished(1) /\ parse_tasks[1].origin = "upload"
                   /\ parse_tasks[1].answer = "success"
    /\ Finished(2) /\ parse_tasks[2].origin = "reparse"
                   /\ parse_tasks[2].answer = "timeout"
    /\ \E doc \in documents : doc.id = parse_tasks[2].document_id
                              /\ doc.parsing_status = "failed"

(***************************************************************************)
(* Properties of the assembled messages (checked under SpecGen)            *)
(***************************************************************************)
\* the system message sent to the provider
SentSystemMessage == gen_messages[1].content

IsContextBlock(p) == p.kind = "from_document"

IsTurnLine(p) == p.kind = "turn"

\* the "From document ..." blocks of the system message, in order
ContextBlocks == SelectSeq(SentSystemMessage, IsContextBlock)

\* the transcript lines of the system message, in order
TurnLines == SelectSeq(SentSystemMessage, IsTurnLine)

DocumentNames == {gen_args.contexts[k].document_name : k \in 1..Len(gen_args.contexts)}

\* C22 (as claimed): the system message has exactly one context block per
\* distinct document_name of the contexts.
C22_OneBlockPerDocument ==
    gen_pc # "idle" => Len(ContextBlocks) = Cardinality(DocumentNames)

\* C22 (amended): the system message has exactly one context block per
\* passage of the contexts, in result order, each headed by the passage's
\* document_name and holding its text; passages of one document are in
\* separate blocks.
C22_OneBlockPerPassage ==
    gen_pc # "idle"
        => /\ Len(ContextBlocks) = Len(gen_args.contexts)
           /\ \A k \in 1..Len(ContextBlocks) :
                 /\ ContextBlocks[k].label = gen_args.contexts[k].document_name
                 /\ ContextBlocks[k].text = gen_args.contexts[k].text

\* two passages of one document, with different texts
C22_Witness ==
    /\ gen_pc # "idle"
    /\ Len(gen_args.contexts) = 2
    /\ gen_args.contexts[1].document_name = gen_args.contexts[2].document_name
    /\ gen_args.contexts[1].text # gen_args.contexts[2].text
    /\ Len(ContextBlocks) = 2

\* C23: the message list is one system message followed by one user
\* message whose content is the raw query; the transcript in the system
\* message has one line per turn of the trimmed history, in the same
\* order, labelled Assistant for assistant turns and Human for user turns.
C23_MessageListAndTranscript ==
    gen_pc # "idle"
        => /\ Len(gen_messages) = 2
           /\ gen_messages[1].role = "system"
           /\ gen_messages[2] = [role |-> "user", content |-> gen_args.query]
           /\ Len(TurnLines) = Len(gen_managed_history)
           /\ \A k \in 1..Len(TurnLines) :
                 /\ gen_managed_history[k].role = "assistant"
                       => TurnLines[k].label = "Assistant"
                 /\ gen_managed_history[k].role = "user"
                       => TurnLines[k].label = "Human"
                 /\ TurnLines[k].text = gen_managed_history[k].content

\* a history of a user turn followed by an assistant turn, next to contexts
C23_Witness ==
    /\ gen_pc # "idle"
    /\ gen_args.contexts # <<>>
    /\ Len(gen_managed_history) = 2
    /\ gen_managed_history[1].role = "user"
    /\ gen_managed_history[2].role = "assistant"
    /\ TurnLines[1].label = "Human"
    /\ TurnLines[2].label = "Assistant"

(***************************************************************************)
(* Properties of the collection name (checked under SpecName)              *)
(***************************************************************************)
\* C20: the derivation yields a name for every identity string (a string
\* over the identity's characters, no longer than it), and deriving again
\* from a derived name gives that name back.
C20_TotalAndIdempotent ==
    /\ nm_pc # "idle"
          => /\ Len(nm_name) <= Len(nm_identity)
             /\ \A k \in 1..Len(nm_name) : nm_name[k] \in Chars
    /\ nm_pc = "rederived" => nm_again = nm_name

\* an identity of separators only, of the greatest length: its name is the
\* empty string, and so is the name derived from that
C20_Witness ==
    /\ nm_pc = "rederived"
    /\ Len(nm_identity) = MaxIdentity
    /\ \A k \in 1..Len(nm_identity) : nm_identity[k] \in {".", "@", "_"}
    /\ nm_name = <<>>
    /\ nm_again = <<>>

\* str.lower() of a character and of a string
Lower(c) == IF c = "A" THEN "a" ELSE c

LowerCase(s) == [k \in 1..Len(s) |-> Lower(s[k])]

\* the string with the case of every letter flipped
SwapCase(s) ==
    [k \in 1..Len(s) |-> IF s[k] = "A" THEN "a" ELSE IF s[k] = "a" THEN "A" ELSE s[k]]

HasLetter(s) == \E k \in 1..Len(s) : s[k] \in {"a", "A"}

\* the normal form read from the left: every run of '.', '@' and '_'
\* becomes one '_', and a run at the end is dropped
RECURSIVE Squeeze(_)
Squeeze(s) ==
    IF s = <<>> THEN <<>>
    ELSE LET rest == Squeeze(Tail(s))
         IN  IF Head(s) \in {".", "@", "_"}
             THEN IF rest = <<>> \/ Head(rest) = "_" THEN rest ELSE <<"_">> \o rest
             ELSE <<Head(s)>> \o rest

\* C21 (as claimed): the derived name is the normal form of the lower-cased
\* identity, so an identity and its case-flipped twin derive the same name.
C21_NormalFormLowerCased ==
    nm_pc # "idle"
        => /\ nm_name = Squeeze(LowerCase(nm_identity))
           /\ collection_name(SwapCase(nm_identity)) = nm_name

\* C21 (amended): the derived name is the normal form of the identity
\* with its letter case kept: '.' and '@' replaced by '_', no two adjacent
\* '_', no trailing '_'; an identity with a letter and its case-flipped
\* twin derive different names.
C21_NormalFormCaseKept ==
    nm_pc # "idle"
        => /\ nm_name = Squeeze(nm_identity)
           /\ \A k \in 1..Len(nm_name) : nm_name[k] \notin {".", "@"}
           /\ ~HasDouble(nm_name)
           /\ (nm_name # <<>> => nm_name[Len(nm_name)] # "_")
           /\ (HasLetter(nm_identity)
                  => collection_name(SwapCase(nm_identity)) # nm_name)

\* an upper-case letter, a run of two separators and a lower-case letter
C21_Witness ==
    /\ nm_pc # "idle"
    /\ nm_identity = <<"A", ".", "@", "a">>
    /\ nm_name = <<"A", "_", "a">>

(***************************************************************************)
(* Properties of create_message (checked under SpecChat)                   *)
(***************************************************************************)
AssistantStored ==
    \E k \in 1..Len(messages) : messages[k].role = "assistant"

FailedAfterLookup ==
    /\ cm_pc = "responded"
    /\ cm_chat # NoChat
    /\ cm_error \notin {"none", "404: Chat not found"}

\* the chat's stored history as the caller reads it now
StoredHistory == GetChatMessages(messages, cm_request.chat_id, cm_request.user)

\* C28: a create_message request that fails after the chat lookup changes
\* the stored history of the chat by exactly one message, the user's message
\* of the request, and stores no assistant message: the stored history then
\* ends with a user turn that has no assistant reply after it.
C28_FailureLeavesUserTurnOnly ==
    FailedAfterLookup =>
        /\ StoredHistory = Append(cm_history, cm_user_message)
        /\ cm_user_message.role = "user"
        /\ cm_user_message.content = cm_request.content
        /\ StoredHistory[Len(StoredHistory)].role = "user"

\* a second request of the same chat failed: the stored history holds two
\* user turns in a row, none of them answered
C28_Witness ==
    /\ FailedAfterLookup
    /\ Len(cm_history) >= 1
    /\ Len(StoredHistory) = Len(cm_history) + 1
    /\ \A k \in 1..Len(StoredHistory) : StoredHistory[k].role = "user"

\* C19: a create_message request for a chat the caller owns, met by no
\* failure of embedding, retrieval or generation, answers 200 with the
\* user message and the assistant message, both stored, the user message
\* first.
C19_SuccessPath ==
    (cm_pc = "responded" /\ cm_chat # NoChat)
        => \/ cm_error \in {"EmbeddingProviderError", "IncompleteRepresentation",
                            "GenerationProviderError"}
           \/ /\ response.status = 200
              /\ response.user_message = cm_user_message
              /\ response.assistant_message # NoMessage
              /\ \E i, j \in 1..Len(messages) :
                    /\ i < j
                    /\ messages[i] = response.user_message
                    /\ messages[j] = response.assistant_message
====
